---- MODULE Spec2Model ----
(***************************************************************************)
(* Link- and path-resolution logic of app/docs/[[...slug]]/page.tsx:       *)
(* the href resolver of the docs page, the route classification and the    *)
(* raw-source probe loops of Page, and generateStaticParams.               *)
(* Strings are TLA+ strings; Len, SubSeq and \o act on them character-wise.*)
(***************************************************************************)
EXTENDS Integers, Sequences, FiniteSets, TLC

VARIABLES
    \* --- link resolution (one rendered <a> of a docs page) ---
    pagePath,        \* page.path of the page being rendered
    pageLocale,      \* page.locale
    index,           \* the page index as seen from (dirname(page.path), page.locale)
    hpc,             \* "idle" | "done"
    href,            \* props.href handed to LinkComponent
    resolved,        \* href handed on to RelativeLink
    lookups,         \* source.getPageByHref calls made, in order
    \* --- Page(props) ---
    pc,              \* "idle" | "reportLoop" | "docsLoop" | "done" | "notFound"
    slug,            \* params.slug (undefined is the empty route)
    branch,          \* renderer chosen: "none" | "report" | "docs"
    possiblePaths,   \* the probe list of the running loop
    idx,             \* position of the running for..of loop (1-based)
    probes,          \* readFile attempts made, in order
    markdownContent, \* the raw source handed to the renderer
    \* --- generateStaticParams() ---
    spc,             \* "idle" | "reading" | "merging" | "done"
    docsParams,      \* source.generateParams()
    reportsIn,       \* reportsSource.generateParams()
    reportsMapped,   \* reportsParams: the report routes under Infra/reports
    apiYaml,         \* outcome of reading and parsing ref/api.yaml
    schemaPaths,     \* what `await getSchemaPaths()` resolved with
    validParams      \* the returned list

vars == <<pagePath, pageLocale, index, hpc, href, resolved, lookups,
          pc, slug, branch, possiblePaths, idx, probes, markdownContent,
          spc, docsParams, reportsIn, reportsMapped, apiYaml, schemaPaths,
          validParams>>

hrefVars   == <<pagePath, pageLocale, index, hpc, href, resolved, lookups>>
pageVars   == <<pc, slug, branch, possiblePaths, idx, probes, markdownContent>>
paramsVars == <<spc, docsParams, reportsIn, reportsMapped, apiYaml, schemaPaths,
                validParams>>

-----------------------------------------------------------------------------
(* Bounds *)
MaxTail     == 3   \* longest query/fragment tail of an enumerated href
MaxPages    == 2   \* most entries of the page index
MaxRouteLen == 3   \* longest route handed to Page
MaxDocs     == 2   \* most routes of the general-docs source
MaxReports  == 2   \* most routes of the reports source
MaxSchemas  == 2   \* most keys of components.schemas

-----------------------------------------------------------------------------
(* String primitives of the JavaScript runtime, as the code uses them *)

Min(a, b) == IF a < b THEN a ELSE b

charAt(s, i) == SubSeq(s, i, i)

startsWith(s, p) == Len(s) >= Len(p) /\ SubSeq(s, 1, Len(p)) = p

endsWith(s, p) == Len(s) >= Len(p) /\ SubSeq(s, Len(s) - Len(p) + 1, Len(s)) = p

includesStr(s, p) ==
    \E i \in 1..(Len(s) - Len(p) + 1) : SubSeq(s, i, i + Len(p) - 1) = p

\* 1-based position of the first occurrence of the character c, 0 if none
indexOf(s, c) ==
    IF \E i \in 1..Len(s) : charAt(s, i) = c
    THEN CHOOSE i \in 1..Len(s) :
            charAt(s, i) = c /\ \A j \in 1..(i - 1) : charAt(s, j) # c
    ELSE 0

\* 1-based position of the last occurrence of the character c, 0 if none
lastIndexOf(s, c) ==
    IF \E i \in 1..Len(s) : charAt(s, i) = c
    THEN CHOOSE i \in 1..Len(s) :
            charAt(s, i) = c /\ \A j \in (i + 1)..Len(s) : charAt(s, j) # c
    ELSE 0

RECURSIVE splitAll(_, _)
splitAll(s, sep) ==
    LET i == indexOf(s, sep)
    IN  IF i = 0 THEN <<s>>
        ELSE <<SubSeq(s, 1, i - 1)>> \o splitAll(SubSeq(s, i + 1, Len(s)), sep)

\* String.prototype.split(sep, limit): every piece is cut, then the list is
\* truncated to the first `limit` pieces
split(s, sep, limit) ==
    LET all == splitAll(s, sep)
    IN  SubSeq(all, 1, Min(limit, Len(all)))

\* `const [a, b = ""] = list`
second(list) == IF Len(list) >= 2 THEN list[2] ELSE ""

RECURSIVE joinWith(_, _)
\* Array.prototype.join(sep)
joinWith(list, sep) ==
    IF Len(list) = 0 THEN ""
    ELSE IF Len(list) = 1 THEN list[1]
    ELSE list[1] \o sep \o joinWith(Tail(list), sep)

LowerLetters == "abcdefghijklmnopqrstuvwxyz"
UpperLetters == "ABCDEFGHIJKLMNOPQRSTUVWXYZ"
Digits       == "0123456789"

isLetter(c) == indexOf(LowerLetters, c) > 0 \/ indexOf(UpperLetters, c) > 0
isDigit(c)  == indexOf(Digits, c) > 0

RECURSIVE toLowerCase(_)
toLowerCase(s) ==
    IF Len(s) = 0 THEN ""
    ELSE LET c == charAt(s, 1)
             u == indexOf(UpperLetters, c)
         IN  (IF u > 0 THEN charAt(LowerLetters, u) ELSE c)
                 \o toLowerCase(Tail(s))

RECURSIVE replaceAll(_, _, _)
\* s.replace(/<from>/g, to) for a one-character pattern
replaceAll(s, from, to) ==
    IF Len(s) = 0 THEN ""
    ELSE (IF charAt(s, 1) = from THEN to ELSE charAt(s, 1))
             \o replaceAll(Tail(s), from, to)

\* path.dirname of a relative file path without trailing slash
dirname(p) ==
    LET i == lastIndexOf(p, "/")
    IN  IF i = 0 THEN "." ELSE IF i = 1 THEN "/" ELSE SubSeq(p, 1, i - 1)

RECURSIVE StringsOver(_, _)
\* every string of at most n characters over the alphabet A
StringsOver(A, n) ==
    IF n = 0 THEN {""}
    ELSE LET S == StringsOver(A, n - 1)
         IN  S \cup {s \o c : s \in S, c \in A}

-----------------------------------------------------------------------------
(* Href resolution: buildHrefCandidates and resolveInternalHref *)

buildHrefCandidates_rewriteFirst(path) ==
    IF endsWith(path, ".md")
    THEN <<SubSeq(path, 1, Len(path) - 3) \o ".mdx", path>>
    ELSE IF endsWith(path, ".mdx") THEN <<path>>
    ELSE IF endsWith(path, "/")
    THEN LET noSlash == SubSeq(path, 1, Len(path) - 1)
         IN  <<path \o "index.mdx", noSlash \o ".mdx">>
    ELSE <<path>>

buildHrefCandidates(path) ==
    IF endsWith(path, ".md")
    THEN <<path, SubSeq(path, 1, Len(path) - 3) \o ".mdx">>
    ELSE IF endsWith(path, ".mdx") THEN <<path>>
    ELSE IF endsWith(path, "/")
    THEN LET noSlash == SubSeq(path, 1, Len(path) - 1)
         IN  <<noSlash \o ".mdx", path \o "index.mdx">>
    ELSE <<path>>

\* /^[a-z][a-z\d+.-]*:/i.test(href)
hasSchemePrefix(h) ==
    \E i \in 2..Len(h) :
        /\ charAt(h, i) = ":"
        /\ isLetter(charAt(h, 1))
        /\ \A j \in 2..(i - 1) :
              LET c == charAt(h, j)
              IN  isLetter(c) \/ isDigit(c) \/ c \in {"+", ".", "-"}

isExternalHref_noAbsolute(h) ==
    startsWith(h, "#") \/ hasSchemePrefix(h)

\* the guard of resolveInternalHref: only relative links are handled
isExternalHref(h) ==
    startsWith(h, "/") \/ startsWith(h, "#") \/ hasSchemePrefix(h)

\* the preserved `?query#hash` tail
hrefSuffix(h) ==
    LET hashSplit   == split(h, "#", 2)
        withoutHash == hashSplit[1]
        hashPart    == second(hashSplit)
        querySplit  == split(withoutHash, "?", 2)
        queryPart   == second(querySplit)
    IN  (IF queryPart # "" THEN "?" \o queryPart ELSE "")
            \o (IF hashPart # "" THEN "#" \o hashPart ELSE "")

hrefRawPath(h) == split(split(h, "#", 2)[1], "?", 2)[1]

\* `foo` -> `./foo`
hrefBase(h) ==
    LET rawPath == hrefRawPath(h)
    IN  IF startsWith(rawPath, "./") \/ startsWith(rawPath, "../")
        THEN rawPath
        ELSE "./" \o rawPath

\* source.getPageByHref(candidate, {dir, language}) on the current index
getPageByHref(candidate) ==
    IF \E e \in index : e.href = candidate
    THEN [found |-> TRUE,
          url   |-> (CHOOSE e \in index : e.href = candidate).url]
    ELSE [found |-> FALSE, url |-> ""]

lookupRecord(candidate) ==
    [href |-> candidate, dir |-> dirname(pagePath), language |-> pageLocale]

RECURSIVE resolveLoop(_, _, _)
\* the for..of loop over the candidates, returning at the first hit
resolveLoop(cands, i, log) ==
    IF i > Len(cands) THEN [found |-> FALSE, url |-> "", lookups |-> log]
    ELSE LET target == getPageByHref(cands[i])
             log2   == Append(log, lookupRecord(cands[i]))
         IN  IF target.found
             THEN [found |-> TRUE, url |-> target.url, lookups |-> log2]
             ELSE resolveLoop(cands, i + 1, log2)

resolveInternalHref_rewritesOnMiss(h) ==
    IF isExternalHref(h) THEN [result |-> h, lookups |-> <<>>]
    ELSE LET run == resolveLoop(buildHrefCandidates(hrefBase(h)), 1, <<>>)
         IN  IF run.found
             THEN [result |-> run.url \o hrefSuffix(h), lookups |-> run.lookups]
             ELSE [result |-> hrefBase(h) \o hrefSuffix(h), lookups |-> run.lookups]

resolveInternalHref(h) ==
    IF isExternalHref(h) THEN [result |-> h, lookups |-> <<>>]
    ELSE LET run == resolveLoop(buildHrefCandidates(hrefBase(h)), 1, <<>>)
         IN  IF run.found
             THEN [result |-> run.url \o hrefSuffix(h), lookups |-> run.lookups]
             ELSE [result |-> h, lookups |-> run.lookups]

\* LinkComponent for a string href
LinkComponent(h) ==
    /\ hpc = "idle"
    /\ href' = h
    /\ resolved' = resolveInternalHref(h).result
    /\ lookups' = resolveInternalHref(h).lookups
    /\ hpc' = "done"
    /\ UNCHANGED <<pagePath, pageLocale, index>>
    /\ UNCHANGED pageVars
    /\ UNCHANGED paramsVars

-----------------------------------------------------------------------------
(* Page: route classification, candidate source paths, probe loops *)

Cwd == "/app"   \* process.cwd()

RECURSIVE normalizeParts(_, _)
\* path.normalize on the components of an absolute path: "" and "." are
\* dropped, ".." removes the component before it
normalizeParts(parts, acc) ==
    IF Len(parts) = 0 THEN acc
    ELSE LET c == parts[1]
         IN  IF c = "" \/ c = "." THEN normalizeParts(Tail(parts), acc)
             ELSE IF c = ".."
             THEN normalizeParts(Tail(parts),
                                 IF Len(acc) = 0 THEN acc
                                 ELSE SubSeq(acc, 1, Len(acc) - 1))
             ELSE normalizeParts(Tail(parts), Append(acc, c))

\* path.join(process.cwd(), ...args): the arguments joined with "/" and
\* normalised (the first argument is absolute)
join(args) ==
    "/" \o joinWith(normalizeParts(splitAll(joinWith(args, "/"), "/"), <<>>), "/")

includes(list, x) == \E i \in 1..Len(list) : list[i] = x

isReportPage_twoSegments(s) ==
    Len(s) >= 2 /\ s[1] = "Infra" /\ s[2] = "reports"

isReportPage(s) ==
    Len(s) >= 3 /\ s[1] = "Infra" /\ s[2] = "reports"

HttpVerbs == {"get", "post", "patch", "delete", "put"}

ActionPrefixes == {"predict", "extract", "generate", "create", "update", "delete",
                   "retrieve", "list", "destroy", "partial_update", "stats"}

ActionSuffixes == {"create", "update", "delete", "retrieve", "list", "destroy",
                   "partial_update", "stats"}

\* the predicate handed to params.slug.some(...)
isApiSegment(segment) ==
    \/ startsWith(segment, "get-")
    \/ startsWith(segment, "post-")
    \/ startsWith(segment, "patch-")
    \/ startsWith(segment, "delete-")
    \/ startsWith(segment, "put-")
    \/ \E v \in HttpVerbs : endsWith(segment, "_" \o v)
    \/ \E v \in ActionPrefixes : startsWith(segment, v)
    \/ includesStr(segment, "_auth_") \/ includesStr(segment, "authentication")
    \/ includesStr(segment, "knowledge_panel")
    \/ \E v \in ActionSuffixes : endsWith(segment, "_" \o v)

\* the known API path patterns
isApiPath(s) ==
    \/ /\ includes(s, "Product-Opener")
       /\ includes(s, "v2") \/ includes(s, "v3")
    \/ /\ includes(s, "Open-prices")
       /\ \/ includes(s, "prices") \/ includes(s, "auth") \/ includes(s, "users")
          \/ includes(s, "locations") \/ includes(s, "proofs")
    \/ /\ includes(s, "Robotoff")
       /\ \/ includes(s, "predict") \/ includes(s, "annotation-management")
          \/ includes(s, "insight-management")

isApiPage_segmentsOnly(s) ==
    \E i \in 1..Len(s) : isApiSegment(s[i])

isApiPage(s) ==
    (\E i \in 1..Len(s) : isApiSegment(s[i])) \/ isApiPath(s)

\* the probe list of the report branch
reportPossiblePaths(s) ==
    LET reportPath == joinWith(s, "/")
    IN  <<join(<<Cwd, "content/docs", reportPath \o ".mdx">>),
          join(<<Cwd, "content/docs", reportPath, "index.mdx">>)>>

generatePaths_secondAfterFirst(s, basePath) ==
    <<join(<<Cwd, "content/docs", basePath \o ".mdx">>),
      join(<<Cwd, "content/docs", basePath, "index.mdx">>)>>
    \o (IF Len(s) >= 1
        THEN LET pathWithDocs == joinWith(<<s[1], "(docs)">> \o Tail(s), "/")
             IN  <<join(<<Cwd, "content/docs", pathWithDocs \o ".mdx">>),
                   join(<<Cwd, "content/docs", pathWithDocs, "index.mdx">>)>>
        ELSE <<>>)
    \o (IF Len(s) >= 2
        THEN LET pathWithDocs == joinWith(<<s[1], "(docs)", s[2]>>
                                              \o SubSeq(s, 3, Len(s)), "/")
             IN  <<join(<<Cwd, "content/docs", pathWithDocs \o ".mdx">>),
                   join(<<Cwd, "content/docs", pathWithDocs, "index.mdx">>)>>
        ELSE <<>>)

\* generatePaths(basePath), closing over params.slug = s
generatePaths(s, basePath) ==
    <<join(<<Cwd, "content/docs", basePath \o ".mdx">>),
      join(<<Cwd, "content/docs", basePath, "index.mdx">>)>>
    \o (IF Len(s) >= 1
        THEN LET pathWithDocs == joinWith(<<s[1], "(docs)">> \o Tail(s), "/")
             IN  <<join(<<Cwd, "content/docs", pathWithDocs \o ".mdx">>),
                   join(<<Cwd, "content/docs", pathWithDocs, "index.mdx">>)>>
        ELSE <<>>)
    \o (IF Len(s) >= 2
        THEN LET pathWithDocs == joinWith(<<s[1], s[2], "(docs)">>
                                              \o SubSeq(s, 3, Len(s)), "/")
             IN  <<join(<<Cwd, "content/docs", pathWithDocs \o ".mdx">>),
                   join(<<Cwd, "content/docs", pathWithDocs, "index.mdx">>)>>
        ELSE <<>>)

\* the probe list of the docs branch
docsPossiblePaths(s) ==
    LET joined   == joinWith(s, "/")
        slugPath == IF joined # "" THEN joined ELSE "index"
    IN  generatePaths(s, slugPath)
            \o (IF Len(s) = 0
                THEN <<join(<<Cwd, "content/docs", "index.mdx">>)>>
                ELSE <<>>)

\* Page(props) up to its first readFile; `found` is the answer of the page
\* source the branch consults (reportsSource.getPage / source.getPage)
Page(s, found) ==
    /\ pc = "idle"
    /\ slug' = s
    /\ idx' = 1
    /\ probes' = <<>>
    /\ markdownContent' = ""
    /\ IF isReportPage(s)
       THEN IF ~found
            THEN pc' = "notFound" /\ branch' = "none" /\ possiblePaths' = <<>>
            ELSE /\ pc' = "reportLoop" /\ branch' = "report"
                 /\ possiblePaths' = reportPossiblePaths(s)
       ELSE IF ~found
            THEN pc' = "notFound" /\ branch' = "none" /\ possiblePaths' = <<>>
            ELSE IF isApiPage(s)
            THEN pc' = "done" /\ branch' = "docs" /\ possiblePaths' = <<>>
            ELSE /\ pc' = "docsLoop" /\ branch' = "docs"
                 /\ possiblePaths' = docsPossiblePaths(s)
    /\ UNCHANGED hrefVars
    /\ UNCHANGED paramsVars

\* one iteration of the report loop: readFile resolves with `content`; break
ReportReadOk(content) ==
    /\ pc = "reportLoop"
    /\ idx <= Len(possiblePaths)
    /\ probes' = Append(probes, [path |-> possiblePaths[idx], ok |-> TRUE,
                                 content |-> content])
    /\ markdownContent' = content
    /\ pc' = "done"
    /\ UNCHANGED <<slug, branch, possiblePaths, idx>>
    /\ UNCHANGED hrefVars
    /\ UNCHANGED paramsVars

\* one iteration of the report loop: readFile rejects; the empty catch moves on to the next
\* path, and the loop ends after the last one
ReportReadFail ==
    /\ pc = "reportLoop"
    /\ idx <= Len(possiblePaths)
    /\ probes' = Append(probes, [path |-> possiblePaths[idx], ok |-> FALSE,
                                 content |-> ""])
    /\ idx' = idx + 1
    /\ pc' = IF idx + 1 > Len(possiblePaths) THEN "done" ELSE "reportLoop"
    /\ UNCHANGED <<slug, branch, possiblePaths, markdownContent>>
    /\ UNCHANGED hrefVars
    /\ UNCHANGED paramsVars

DocsReadOk_noBreak(content) ==
    /\ pc = "docsLoop"
    /\ idx <= Len(possiblePaths)
    /\ probes' = Append(probes, [path |-> possiblePaths[idx], ok |-> TRUE,
                                 content |-> content])
    /\ markdownContent' = content
    /\ idx' = idx + 1
    /\ pc' = IF idx + 1 > Len(possiblePaths) THEN "done" ELSE "docsLoop"
    /\ UNCHANGED <<slug, branch, possiblePaths>>
    /\ UNCHANGED hrefVars
    /\ UNCHANGED paramsVars

\* one iteration of the docs loop: readFile resolves with `content`; break
DocsReadOk(content) ==
    /\ pc = "docsLoop"
    /\ idx <= Len(possiblePaths)
    /\ probes' = Append(probes, [path |-> possiblePaths[idx], ok |-> TRUE,
                                 content |-> content])
    /\ markdownContent' = content
    /\ pc' = "done"
    /\ UNCHANGED <<slug, branch, possiblePaths, idx>>
    /\ UNCHANGED hrefVars
    /\ UNCHANGED paramsVars

\* one iteration of the docs loop: readFile rejects; the empty catch moves on to the next
\* path, and the loop ends after the last one
DocsReadFail ==
    /\ pc = "docsLoop"
    /\ idx <= Len(possiblePaths)
    /\ probes' = Append(probes, [path |-> possiblePaths[idx], ok |-> FALSE,
                                 content |-> ""])
    /\ idx' = idx + 1
    /\ pc' = IF idx + 1 > Len(possiblePaths) THEN "done" ELSE "docsLoop"
    /\ UNCHANGED <<slug, branch, possiblePaths, markdownContent>>
    /\ UNCHANGED hrefVars
    /\ UNCHANGED paramsVars

-----------------------------------------------------------------------------
(* generateStaticParams and getSchemaPaths *)

\* JavaScript values a `slug` property can hold; a missing property is a
\* missing record field, and a null entry is JsNull
jsArray(items) == [type |-> "array", val |-> items]
jsString(str)  == [type |-> "string", val |-> str]
JsNull         == [type |-> "null"]

\* ToBoolean of a property value: "" is falsy, every array is truthy
truthy(v) == IF v.type = "string" THEN v.val # "" ELSE v.type = "array"

schemaParam(urlName) ==
    [slug |-> jsArray(<<"Product-Opener", "api", "schemas", "schemas", urlName>>),
     lang |-> "en"]

schemasIndexParam ==
    [slug |-> jsArray(<<"Product-Opener", "api", "schemas">>), lang |-> "en"]

\* the hardcoded list returned by the catch block
fallbackSchemaPaths ==
    <<schemasIndexParam,
      schemaParam("product_base"),
      schemaParam("product_misc"),
      schemaParam("product_tags"),
      schemaParam("product_images"),
      schemaParam("product_eco_score"),
      schemaParam("product_ingredients"),
      schemaParam("product_nutrition"),
      schemaParam("product_nutriscore"),
      schemaParam("product_quality"),
      schemaParam("product_extended"),
      schemaParam("product_metadata"),
      schemaParam("product_knowledge_panels"),
      schemaParam("product_attribute_groups"),
      schemaParam("product"),
      schemaParam("ingredient"),
      schemaParam("nutrient")>>

\* schemaName.toLowerCase().replace(/-/g, "_")
urlNameOf(schemaName) == replaceAll(toLowerCase(schemaName), "-", "_")

\* the try block throws when readFile rejects, when parse throws, and when
\* the document parses to null (apiSpec.components on null)
schemaReadThrows(yaml) == yaml.status # "parsed" \/ yaml.doc = "null"

\* Object.keys(apiSpec.components?.schemas || {})
schemaKeys(yaml) == IF yaml.doc = "schemas" THEN yaml.keys ELSE <<>>

getSchemaPaths_noIndex(yaml) ==
    IF schemaReadThrows(yaml) THEN fallbackSchemaPaths
    ELSE [i \in 1..Len(schemaKeys(yaml)) |-> schemaParam(urlNameOf(schemaKeys(yaml)[i]))]

getSchemaPaths_fallbackIndexOnly(yaml) ==
    IF schemaReadThrows(yaml) THEN <<schemasIndexParam>>
    ELSE <<schemasIndexParam>>
             \o [i \in 1..Len(schemaKeys(yaml)) |->
                    schemaParam(urlNameOf(schemaKeys(yaml)[i]))]

getSchemaPaths(yaml) ==
    IF schemaReadThrows(yaml) THEN fallbackSchemaPaths
    ELSE <<schemasIndexParam>>
             \o [i \in 1..Len(schemaKeys(yaml)) |->
                    schemaParam(urlNameOf(schemaKeys(yaml)[i]))]

\* param && param.slug && Array.isArray(param.slug)
isValidParam(param) ==
    /\ param # JsNull
    /\ "slug" \in DOMAIN param
    /\ truthy(param.slug)
    /\ param.slug.type = "array"

reportsParams_unprefixed(reports) ==
    [i \in 1..Len(reports) |-> [slug |-> reports[i].slug]]

\* reportsSource.generateParams().map(...)
reportsParams(reports) ==
    [i \in 1..Len(reports) |->
        [slug |-> jsArray(<<"Infra", "reports">> \o reports[i].slug.val)]]

\* generateStaticParams() up to the readFile of getSchemaPaths: both sources
\* are read and the report routes mapped, then the call is suspended
generateStaticParams(docs, reports) ==
    /\ spc = "idle"
    /\ docsParams' = docs
    /\ reportsIn' = reports
    /\ reportsMapped' = reportsParams(reports)
    /\ spc' = "reading"
    /\ UNCHANGED <<apiYaml, schemaPaths, validParams>>
    /\ UNCHANGED hrefVars
    /\ UNCHANGED pageVars

\* another callback runs while the call is suspended and extends the list
\* object source.generateParams() returned
otherCallback(entry) ==
    /\ spc \in {"reading", "merging"}
    /\ Len(docsParams) < MaxDocs
    /\ docsParams' = Append(docsParams, entry)
    /\ UNCHANGED <<spc, reportsIn, reportsMapped, apiYaml, schemaPaths, validParams>>
    /\ UNCHANGED hrefVars
    /\ UNCHANGED pageVars

\* readFile settles and getSchemaPaths runs to its return
readFileSettles(yaml) ==
    /\ spc = "reading"
    /\ apiYaml' = yaml
    /\ schemaPaths' = getSchemaPaths(yaml)
    /\ spc' = "merging"
    /\ UNCHANGED <<docsParams, reportsIn, reportsMapped, validParams>>
    /\ UNCHANGED hrefVars
    /\ UNCHANGED pageVars

\* generateStaticParams() resumes: merge, filter, return
returnValidParams ==
    /\ spc = "merging"
    /\ validParams' =
          SelectSeq(docsParams \o reportsMapped \o schemaPaths, isValidParam)
    /\ spc' = "done"
    /\ UNCHANGED <<docsParams, reportsIn, reportsMapped, apiYaml, schemaPaths>>
    /\ UNCHANGED hrefVars
    /\ UNCHANGED pageVars

-----------------------------------------------------------------------------
(* Inputs of the link resolver *)

TailAlphabet == {"?", "#", "x"}

HrefPaths == {"", "a", "a.md", "a.mdx", "a/", "./a", "../a.md",
              "/docs/a", "mailto:a", "a/b:c", "1:a"}

Hrefs == {p \o t : p \in HrefPaths, t \in StringsOver(TailAlphabet, MaxTail)}

\* canonical urls of the page index are opaque strings: a site-absolute one
\* and a relative one
IndexUrls == {"/docs/a", "a/"}

IndexKeys == {"./a", "./a.md", "./a.mdx", "./a/index.mdx", ".//docs/a"}

IndexEntries == [href : IndexKeys, url : IndexUrls]

\* a lookup is deterministic: at most one page per candidate
Indexes ==
    {ix \in SUBSET IndexEntries :
        /\ Cardinality(ix) <= MaxPages
        /\ \A e1, e2 \in ix : e1.href = e2.href => e1 = e2}

PagePaths == {"index.mdx", "guides/intro.mdx"}

-----------------------------------------------------------------------------
(* Inputs of Page *)

Segments == {"Infra", "reports", "get-list", "Open-prices", "prices",
             "Product-Opener", "api", "schemas"}

RECURSIVE SeqsUpTo(_, _)
\* every sequence of at most n elements of S
SeqsUpTo(S, n) ==
    IF n = 0 THEN {<<>>}
    ELSE LET T == SeqsUpTo(S, n - 1)
         IN  T \cup {Append(t, x) : t \in T, x \in S}

Routes == SeqsUpTo(Segments, MaxRouteLen)

FileContents == {"", "# Doc"}

-----------------------------------------------------------------------------
(* Inputs of generateStaticParams *)

\* injective sequences of at most n elements of S
DistinctSeqs(S, n) ==
    {q \in SeqsUpTo(S, n) : \A i, j \in 1..Len(q) : i # j => q[i] # q[j]}

DocRoutes == {<<>>, <<"guide">>,
              <<"Product-Opener", "api", "schemas">>,
              <<"Product-Opener", "api", "schemas", "schemas", "product_base">>}

ReportSlugs == {<<"2024-outage">>, <<"2025-audit">>}

SchemaNames == {"Product-Base", "product_base", "Nutrient"}

\* entries of the general-docs list: routes, and entries without a
\* well-formed slug (string slug, empty slug, no slug, null)
DocEntries ==
    {[slug |-> jsArray(r), lang |-> "en"] : r \in DocRoutes}
        \cup {[slug |-> jsString("abc"), lang |-> "en"],
              [slug |-> jsString(""), lang |-> "en"],
              [lang |-> "en"],
              JsNull}

DocsLists == DistinctSeqs(DocEntries, MaxDocs)

ReportsLists ==
    DistinctSeqs({[slug |-> jsArray(r), lang |-> "en"] : r \in ReportSlugs}, MaxReports)

\* outcomes of reading and parsing ref/api.yaml
YamlOutcomes ==
    {[status |-> st, doc |-> "none", keys |-> <<>>] : st \in {"unreadable", "unparseable"}}
        \cup {[status |-> "parsed", doc |-> d, keys |-> <<>>] : d \in {"null", "noSchemas"}}
        \cup {[status |-> "parsed", doc |-> "schemas", keys |-> k] :
                 k \in DistinctSeqs(SchemaNames, MaxSchemas)}

-----------------------------------------------------------------------------
(* Initial states and specifications *)

HrefIdle ==
    /\ hpc = "idle" /\ href = "" /\ resolved = "" /\ lookups = <<>>

PageIdle ==
    /\ pc = "idle" /\ slug = <<>> /\ branch = "none" /\ possiblePaths = <<>>
    /\ idx = 1 /\ probes = <<>> /\ markdownContent = ""

ParamsIdle ==
    /\ spc = "idle" /\ docsParams = <<>> /\ reportsIn = <<>>
    /\ reportsMapped = <<>> /\ schemaPaths = <<>>
    /\ apiYaml = [status |-> "unread", doc |-> "none", keys |-> <<>>] /\ validParams = <<>>

InitHref ==
    /\ pagePath \in PagePaths
    /\ pageLocale = "en"
    /\ index \in Indexes
    /\ HrefIdle /\ PageIdle /\ ParamsIdle

NextHref == \E h \in Hrefs : LinkComponent(h)

SpecHref == InitHref /\ [][NextHref]_vars

InitPage ==
    /\ pagePath = "index.mdx" /\ pageLocale = "en" /\ index = {}
    /\ HrefIdle /\ PageIdle /\ ParamsIdle

NextPage ==
    \/ \E s \in Routes, found \in BOOLEAN : Page(s, found)
    \/ \E content \in FileContents : ReportReadOk(content)
    \/ ReportReadFail
    \/ \E content \in FileContents : DocsReadOk(content)
    \/ DocsReadFail

SpecPage == InitPage /\ [][NextPage]_vars

\* every readFile settles: a pending probe eventually resolves or rejects
ProbeStep ==
    \/ \E content \in FileContents : ReportReadOk(content)
    \/ ReportReadFail
    \/ \E content \in FileContents : DocsReadOk(content)
    \/ DocsReadFail

SpecPageFair == SpecPage /\ WF_vars(ProbeStep)

InitParams ==
    /\ pagePath = "index.mdx" /\ pageLocale = "en" /\ index = {}
    /\ HrefIdle /\ PageIdle /\ ParamsIdle

NextParams ==
    \/ \E docs \in DocsLists, reports \in ReportsLists :
          generateStaticParams(docs, reports)
    \/ \E entry \in DocEntries : otherCallback(entry)
    \/ \E yaml \in YamlOutcomes : readFileSettles(yaml)
    \/ returnValidParams

SpecParams == InitParams /\ [][NextParams]_vars

-----------------------------------------------------------------------------
(* Claims about link resolution *)

\* the claim's reading of "relative": not site-absolute, not fragment-only,
\* not scheme-prefixed
RelativeHref(h) ==
    ~(startsWith(h, "/") \/ startsWith(h, "#") \/ hasSchemePrefix(h))

\* the original text of h from its first '?' or '#' to its end
OriginalTail(h) ==
    LET cut == {i \in 1..Len(h) : charAt(h, i) \in {"?", "#"}}
    IN  IF cut = {} THEN ""
        ELSE SubSeq(h, CHOOSE i \in cut : \A j \in cut : i <= j, Len(h))

\* the path portion of h, made explicitly relative
NormalisedPath(h) ==
    LET cut == {i \in 1..Len(h) : charAt(h, i) \in {"?", "#"}}
        p   == IF cut = {} THEN h
               ELSE SubSeq(h, 1, (CHOOSE i \in cut : \A j \in cut : i <= j) - 1)
    IN  IF startsWith(p, "./") \/ startsWith(p, "../") THEN p ELSE "./" \o p

\* the candidate list the claim prescribes for a path
ExpectedCandidates(p) ==
    IF endsWith(p, ".md") THEN <<p, SubSeq(p, 1, Len(p) - 3) \o ".mdx">>
    ELSE IF endsWith(p, ".mdx") THEN <<p>>
    ELSE IF endsWith(p, "/")
    THEN <<SubSeq(p, 1, Len(p) - 1) \o ".mdx", p \o "index.mdx">>
    ELSE <<p>>

InIndex(c) == \E e \in index : e.href = c
UrlOf(c)   == (CHOOSE e \in index : e.href = c).url

\* position of the first prescribed candidate of h the index knows, 0 if none
FirstHit(h) ==
    LET cs   == ExpectedCandidates(NormalisedPath(h))
        hits == {i \in 1..Len(cs) : InIndex(cs[i])}
    IN  IF hits = {} THEN 0 ELSE CHOOSE i \in hits : \A j \in hits : i <= j

\* C1: for a relative href whose path portion resolves in the page index, the
\* result is the canonical url of the hit followed by the original text of
\* the href from its first '?' or '#' to its end, unmodified.
C1_TailPreserved ==
    (hpc = "done" /\ RelativeHref(href) /\ FirstHit(href) > 0)
        => resolved =
             UrlOf(ExpectedCandidates(NormalisedPath(href))[FirstHit(href)])
                 \o OriginalTail(href)

\* C2: an href that is site-absolute, fragment-only or scheme-prefixed is
\* returned character for character and no page-index lookup is made; a
\* relative href none of whose candidates is in the page index is returned
\* character for character as well.
C2_UnchangedUnlessHit ==
    hpc = "done" =>
        /\ ~RelativeHref(href) => (resolved = href /\ lookups = <<>>)
        /\ (RelativeHref(href) /\ FirstHit(href) = 0) => resolved = href

\* a relative '.md' link without './' prefix missed both candidates and came
\* back as written
C2_Witness ==
    /\ hpc = "done" /\ href = "a.md#x" /\ Len(lookups) = 2
    /\ resolved = "a.md#x"

\* C3 as claimed: resolving the result of a resolution of a relative href
\* again, with the same page index, directory and locale, returns it
\* unchanged.
C3_Idempotent ==
    (hpc = "done" /\ RelativeHref(href))
        => resolveInternalHref(resolved).result = resolved

\* the href missed, or hit a page whose canonical url is not itself relative
MissOrNonRelativeUrl(h) ==
    \/ FirstHit(h) = 0
    \/ ~RelativeHref(UrlOf(ExpectedCandidates(NormalisedPath(h))[FirstHit(h)]))

\* C3 amended: resolving the result again returns it unchanged for every
\* relative href that misses the index or hits a page whose canonical url
\* starts with '/' or '#' or is scheme-prefixed.
C3_IdempotentNonRelativeUrls ==
    (hpc = "done" /\ RelativeHref(href) /\ MissOrNonRelativeUrl(href))
        => resolveInternalHref(resolved).result = resolved

\* a relative link was rewritten to a site-absolute canonical url
C3_Witness ==
    /\ hpc = "done" /\ href = "a.md?x" /\ resolved = "/docs/a?x"

\* C4: buildHrefCandidates yields the prescribed list, and the page index is
\* queried with the candidates of the './'-normalised path in list order with
\* (current directory, locale), up to and including the first hit and no
\* further; the result starts with the url of that first hit.
C4_CandidateOrder ==
    (hpc = "done" /\ RelativeHref(href)) =>
          LET cs == ExpectedCandidates(NormalisedPath(href))
              k  == FirstHit(href)
              n  == IF k = 0 THEN Len(cs) ELSE k
          IN  /\ buildHrefCandidates(NormalisedPath(href)) = cs
              /\ lookups = [i \in 1..n |->
                               [href |-> cs[i], dir |-> dirname(pagePath),
                                language |-> pageLocale]]
              /\ k > 0 => startsWith(resolved, UrlOf(cs[k]))

\* both candidates of a '.md' link are pages with different urls; only the
\* literal '.md' path was looked up
C4_Witness ==
    /\ hpc = "done" /\ href = "a.md"
    /\ InIndex("./a.md") /\ InIndex("./a.mdx") /\ UrlOf("./a.md") # UrlOf("./a.mdx")
    /\ Len(lookups) = 1 /\ resolved = UrlOf("./a.md")

-----------------------------------------------------------------------------
(* Claims about Page *)

ContentRoot == "/app/content/docs"

\* the route r with the marker segment inserted after its first i segments
Injected(r, i) == SubSeq(r, 1, i) \o <<"(docs)">> \o SubSeq(r, i + 1, Len(r))

\* direct file, then directory index, of a route under the content root
FileThenIndex(r) ==
    LET rel == joinWith(r, "/")
    IN  <<ContentRoot \o "/" \o rel \o ".mdx",
          IF rel = "" THEN ContentRoot \o "/index.mdx"
          ELSE ContentRoot \o "/" \o rel \o "/index.mdx">>

\* the list as the claim words it, for every route
ClaimedPaths(r) ==
    FileThenIndex(r)
        \o (IF Len(r) >= 1 THEN FileThenIndex(Injected(r, 1)) ELSE <<>>)
        \o (IF Len(r) >= 2 THEN FileThenIndex(Injected(r, 2)) ELSE <<>>)
        \o (IF Len(r) = 0 THEN <<ContentRoot \o "/index.mdx">> ELSE <<>>)

\* the list of the empty route: the base path is "index"
RootPaths ==
    <<ContentRoot \o "/index.mdx", ContentRoot \o "/index/index.mdx",
      ContentRoot \o "/index.mdx">>

DocsLookupStarted == branch = "docs" /\ possiblePaths # <<>>

\* C5 as claimed: for every route, the empty one included, the candidate
\* list is C/r.mdx, C/r/index.mdx, the '(docs)' variants for the first
\* min(len, 2) injection points, then C/index.mdx for the empty route, and
\* nothing else.
C5_PathsAsClaimed ==
    DocsLookupStarted => possiblePaths = ClaimedPaths(slug)

\* C5 amended: the claimed list is generated for every non-empty route; for
\* the empty route the list is C/index.mdx, C/index/index.mdx, C/index.mdx.
C5_PathsAmended ==
    DocsLookupStarted =>
        possiblePaths = IF slug = <<>> THEN RootPaths ELSE ClaimedPaths(slug)

\* a three-segment route got both injection points, the second after its
\* second segment
C5_Witness ==
    /\ DocsLookupStarted /\ slug = <<"api", "schemas", "Infra">>
    /\ Len(possiblePaths) = 6
    /\ possiblePaths[5] = "/app/content/docs/api/schemas/(docs)/Infra.mdx"

VerbMarked(seg) ==
    \E v \in {"get", "post", "patch", "delete", "put"} :
        startsWith(seg, v \o "-") \/ endsWith(seg, "_" \o v)

Has(r, x) == \E i \in 1..Len(r) : r[i] = x

PairsCoOccur(r) ==
    \/ Has(r, "Product-Opener") /\ (Has(r, "v2") \/ Has(r, "v3"))
    \/ Has(r, "Open-prices") /\ (\E x \in {"prices", "auth", "users", "locations",
                                           "proofs"} : Has(r, x))
    \/ Has(r, "Robotoff") /\ (\E x \in {"predict", "annotation-management",
                                        "insight-management"} : Has(r, x))

ReportRoute(r) == Len(r) >= 3 /\ r[1] = "Infra" /\ r[2] = "reports"

SchemaRoute(r) ==
    Len(r) >= 3 /\ SubSeq(r, 1, 3) = <<"Product-Opener", "api", "schemas">>

\* the four-way classification, first match wins
Namespace(r) ==
    IF ReportRoute(r) THEN "report"
    ELSE IF isApiPage(r) THEN "api-reference"
    ELSE IF SchemaRoute(r) THEN "schema"
    ELSE "general-doc"

\* C6: on every rendered route Page takes the report branch exactly for
\* routes classified report, i.e. of at least 3 segments starting
\* 'Infra','reports', whatever their later segments look like; any other
\* route with a verb-marked segment or a co-occurring namespace pair is
\* api-reference; and the raw-source lookup is skipped exactly for
\* api-reference routes.
C6_Classification ==
    pc = "done" =>
        /\ (branch = "report") <=> (Namespace(slug) = "report")
        /\ (branch = "docs") <=> (Namespace(slug) # "report")
        /\ (~ReportRoute(slug)
              /\ ((\E i \in 1..Len(slug) : VerbMarked(slug[i])) \/ PairsCoOccur(slug)))
             => (Namespace(slug) = "api-reference" /\ probes = <<>>)
        /\ (probes = <<>>) <=> (Namespace(slug) = "api-reference")
        /\ slug = <<"Infra", "reports">> => (branch = "docs" /\ probes # <<>>)
        /\ slug = <<"Open-prices", "prices", "get-list">> => probes = <<>>

\* a report route with an api-looking later segment was rendered as a report,
\* with a raw-source lookup
C6_Witness ==
    /\ pc = "done" /\ slug = <<"Infra", "reports", "get-list">>
    /\ branch = "report" /\ probes # <<>>

ProbeLoopInv ==
    /\ Len(probes) <= Len(possiblePaths)
    /\ \A i \in 1..Len(probes) : probes[i].path = possiblePaths[i]
    /\ \A i \in 1..(Len(probes) - 1) : ~probes[i].ok
    /\ pc \in {"reportLoop", "docsLoop"} =>
          /\ idx = Len(probes) + 1 /\ idx <= Len(possiblePaths)
          /\ \A i \in 1..Len(probes) : ~probes[i].ok
          /\ markdownContent = ""
    /\ (pc = "done" /\ possiblePaths # <<>>) =>
          /\ probes # <<>>
          /\ IF probes[Len(probes)].ok
             THEN markdownContent = probes[Len(probes)].content
             ELSE Len(probes) = Len(possiblePaths) /\ markdownContent = ""

\* C10: paths are probed in list order; every probe before the last failed;
\* a running loop has seen only failures; a finished loop either ended on its
\* first readable path, whose content is the raw source, or failed on every
\* path of the list and left the raw source empty; never more probes than
\* paths; and a started loop always finishes.
C10_ProbeLoop ==
    /\ []ProbeLoopInv
    /\ (pc \in {"reportLoop", "docsLoop"}) ~> (pc = "done")

\* the third of six paths was the first readable one and ended the loop
C10_Witness ==
    /\ pc = "done" /\ branch = "docs" /\ Len(possiblePaths) = 6
    /\ Len(probes) = 3 /\ probes[3].ok /\ markdownContent = "# Doc"

-----------------------------------------------------------------------------
(* Claims about generateStaticParams *)

RoutesOf(params) == [i \in 1..Len(params) |-> params[i].slug.val]

SchemasIndexRoute == <<"Product-Opener", "api", "schemas">>

ReadFailed == apiYaml.status \in {"unreadable", "unparseable"}

\* an entry with a route: an object whose slug is an ordered sequence
WellFormed(p) == p # JsNull /\ "slug" \in DOMAIN p /\ p.slug.type = "array"

\* the routes of the general-docs list as it is when the result is built,
\* then the report routes under 'Infra','reports'
DocsThenReports ==
    RoutesOf(SelectSeq(docsParams, WellFormed))
        \o [i \in 1..Len(reportsIn) |-> <<"Infra", "reports">> \o reportsIn[i].slug.val]

\* the routes synthesized for the schema names of a parsed document
SynthesizedRoutes ==
    [i \in 1..Len(apiYaml.keys) |->
        <<"Product-Opener", "api", "schemas", "schemas",
          replaceAll(toLowerCase(apiYaml.keys[i]), "-", "_")>>]

\* C7 as claimed: no route appears more than once in the result.
C7_NoDuplicateRoutes ==
    spc = "done" =>
        \A i, j \in 1..Len(validParams) :
            i # j => validParams[i].slug # validParams[j].slug

\* C7 amended: the result is the well-formed general-docs routes, then the
\* prefixed report routes, then the schema routes (after a successful parse
\* the bare index followed by one route per schema name in document order,
\* otherwise the static list), duplicates kept: a route appears once per
\* occurrence in those lists.
C7_ConcatenationKeepsDuplicates ==
    spc = "done" =>
        RoutesOf(validParams)
            = DocsThenReports
                \o (IF ReadFailed \/ apiYaml.doc = "null"
                    THEN RoutesOf(fallbackSchemaPaths)
                    ELSE <<SchemasIndexRoute>> \o SynthesizedRoutes)

\* two schema names normalised to the same route and both are in the result
C7_Witness ==
    /\ spc = "done" /\ apiYaml.keys = <<"Product-Base", "product_base">>
    /\ Len(docsParams) = 1 /\ Len(reportsIn) = 1
    /\ Len(validParams) = 5
    /\ validParams[4].slug = validParams[5].slug

\* C8: when reading or parsing the specification fails, the result is the
\* general-docs routes, the report routes prefixed with 'Infra','reports',
\* and the static schema list: at least 17 entries, the bare schemas index
\* among them.
C8_FallbackOnFailure ==
    (spc = "done" /\ ReadFailed) =>
        /\ RoutesOf(validParams) = DocsThenReports \o RoutesOf(fallbackSchemaPaths)
        /\ Len(validParams)
              = Len(SelectSeq(docsParams, WellFormed)) + Len(reportsIn) + 17
        /\ Len(validParams) >= 17
        /\ \E i \in 1..Len(validParams) : validParams[i].slug.val = SchemasIndexRoute

\* an unparseable document with empty content sources gave exactly the 17
\* static routes
C8_Witness ==
    /\ spc = "done" /\ apiYaml.status = "unparseable"
    /\ docsParams = <<>> /\ reportsIn = <<>>
    /\ Len(validParams) = 17
    /\ validParams[1].slug.val = SchemasIndexRoute

InResult(r) == \E i \in 1..Len(validParams) : validParams[i].slug.val = r

\* C9 as claimed: for every outcome of reading the specification, the result
\* contains every route of the static schema list.
C9_StaticSetAlways ==
    spc = "done" =>
        \A i \in 1..Len(fallbackSchemaPaths) :
            InResult(fallbackSchemaPaths[i].slug.val)

\* C9 amended: the result contains every route of the static schema list
\* when reading or parsing fails; for every outcome it contains the bare
\* schemas index route, and after a successful parse one route per schema
\* name of the document.
C9_StaticSetOnFailure ==
    spc = "done" =>
        /\ ReadFailed =>
              \A i \in 1..Len(fallbackSchemaPaths) :
                  InResult(fallbackSchemaPaths[i].slug.val)
        /\ InResult(SchemasIndexRoute)
        /\ (apiYaml.status = "parsed" /\ apiYaml.doc = "schemas") =>
              \A i \in 1..Len(SynthesizedRoutes) : InResult(SynthesizedRoutes[i])

\* a parsed document with one schema gave the index and that schema's route
\* only
C9_Witness ==
    /\ spc = "done" /\ apiYaml.status = "parsed" /\ apiYaml.keys = <<"Nutrient">>
    /\ docsParams = <<>> /\ reportsIn = <<>>
    /\ RoutesOf(validParams) =
          <<SchemasIndexRoute,
            <<"Product-Opener", "api", "schemas", "schemas", "nutrient">>>>

====
